---- MODULE Spec2Model ----
(***************************************************************************)
(* Model of log_process.py: the timestamp extractor, the two-pass interval *)
(* aggregator get_log_activity_interval and the loop of main.              *)
(*                                                                         *)
(* Time is counted in milliseconds since datetime.min (the precision the   *)
(* code-server log lines carry).  A log line is a sequence of tokens: "["  *)
(* and "]" characters, a run of other text, or the text of a timestamp     *)
(* with its date field (day number) and its time-of-day field (ms).        *)
(* The insertion-ordered dict time_interval_to_log_count is a sequence of  *)
(* [key, count] records.                                                   *)
(***************************************************************************)
EXTENDS Integers, Sequences, FiniteSets, TLC

VARIABLES logs, cur, delta, pc, pos, eofReads, hist, out

vars == <<logs, cur, delta, pc, pos, eofReads, hist, out>>

----------------------------------------------------------------------------
(* Bounds of the model                                                     *)

MaxLines == 3

MaxEofReads == 2

MaxFiles == 2

MaxMainLines == 2

----------------------------------------------------------------------------
(* Program constants                                                       *)

\* timedelta(days=1), in milliseconds
Day == 86400000

\* datetime.min, the base of the modulo rounding
Epoch == 0

\* interval={"minutes": 30}
DefaultInterval == 1800000

----------------------------------------------------------------------------
(* Log lines                                                               *)

Tok(k, d, m) == [kind |-> k, day |-> d, ms |-> m]

LB == Tok("lb", 0, 0)

RB == Tok("rb", 0, 0)

TXT == Tok("txt", 0, 0)

Stamp(d, m) == Tok("stamp", d, m)

\* results of get_datetime_from_log_line
None == [tag |-> "none", val |-> 0]

ValueError == [tag |-> "error", val |-> 0]

Ok(t) == [tag |-> "ok", val |-> t]

\* log_line.split("]")[0]
RECURSIVE SplitHead(_)
SplitHead(s) ==
    IF s = <<>> \/ Head(s) = RB THEN <<>>
    ELSE <<Head(s)>> \o SplitHead(Tail(s))

\* .lstrip("[")
RECURSIVE LStrip(_)
LStrip(s) ==
    IF s # <<>> /\ Head(s) = LB THEN LStrip(Tail(s)) ELSE s

\* datetime.strptime(log_datetime, LOG_TIME_FORMAT): the whole text must be
\* one timestamp whose fields are in range
strptime(s) ==
    IF Len(s) = 1 /\ s[1].kind = "stamp" /\ s[1].ms < Day
    THEN Ok(Epoch + s[1].day * Day + s[1].ms)
    ELSE ValueError

\* mutant: a malformed bracketed text is swallowed as "no timestamp"
get_datetime_swallow(log_line) ==
    IF log_line # <<>> /\ Head(log_line) = LB
    THEN IF strptime(LStrip(SplitHead(log_line))).tag = "ok"
         THEN strptime(LStrip(SplitHead(log_line)))
         ELSE None
    ELSE None

\* mutant: the startswith("[") test is missing
get_datetime_nocheck(log_line) ==
    strptime(LStrip(SplitHead(log_line)))

get_datetime_from_log_line(log_line) ==
    IF log_line # <<>> /\ Head(log_line) = LB
    THEN strptime(LStrip(SplitHead(log_line)))
    ELSE None

----------------------------------------------------------------------------
(* The histogram                                                           *)

\* datetime.combine(log_date_object, time())
Midnight(t) == t - ((t - Epoch) % Day)

\* mutant: one bucket too many
SeedOneMore(anchor, d) ==
    [k \in 1..((Day \div d) + 1) |-> [key |-> anchor + (k - 1) * d, count |-> 0]]

\* {log_date_object + i * delta: 0 for i in range(timedelta(days=1) // delta)}
Seed(anchor, d) ==
    [k \in 1..(Day \div d) |-> [key |-> anchor + (k - 1) * d, count |-> 0]]

\* mutant: always moves on to the following boundary
RoundNext(t, d) == t + d - ((t - Epoch) % d)

\* log_date_object + (datetime.min - log_date_object) % delta
Round(t, d) == t + ((Epoch - t) % d)

IndexOf(h, k) ==
    IF \E i \in 1..Len(h) : h[i].key = k
    THEN CHOOSE i \in 1..Len(h) : h[i].key = k
    ELSE 0

\* time_interval_to_log_count.get(k), 0 standing for an absent key
Count(h, k) == IF IndexOf(h, k) = 0 THEN 0 ELSE h[IndexOf(h, k)].count

\* mutant: an existing bucket is overwritten with 1
BumpReset(h, k) ==
    IF IndexOf(h, k) = 0
    THEN Append(h, [key |-> k, count |-> 1])
    ELSE [h EXCEPT ![IndexOf(h, k)].count = 1]

\* mutant: an incremented bucket is re-inserted at the end
BumpMove(h, k) ==
    IF IndexOf(h, k) = 0
    THEN Append(h, [key |-> k, count |-> 1])
    ELSE Append(SelectSeq(h, LAMBDA e : e.key # k),
                [key |-> k, count |-> Count(h, k) + 1])

\* existing_value is None -> d[k] = 1, else d[k] += 1
Bump(h, k) ==
    IF IndexOf(h, k) = 0
    THEN Append(h, [key |-> k, count |-> 1])
    ELSE [h EXCEPT ![IndexOf(h, k)].count = @ + 1]

----------------------------------------------------------------------------
(* Inputs                                                                  *)

LineSet ==
    { <<TXT>>,
      <<TXT, LB, Stamp(0, 76230781), RB>>,
      <<LB, Stamp(0, 76230781), RB, TXT>>,
      <<LB, Stamp(0, 77400000), RB, TXT>>,
      <<LB, Stamp(0, 85500000), RB, TXT>>,
      <<LB, Stamp(1, 3600000), RB, TXT>>,
      <<LB, LB, Stamp(1, 76230781), RB>>,
      <<LB, TXT, RB, TXT>>,
      <<LB, Stamp(0, 90000000), RB, TXT>>,
      <<LB, Stamp(0, 76230781), TXT>> }

MainLineSet ==
    { <<TXT>>,
      <<LB, Stamp(0, 76230781), RB, TXT>>,
      <<LB, TXT, RB, TXT>> }

Widths == {1800000, 25200000, 43200000, 172800000}

SeqsUpTo(S, n) == UNION {[1..k -> S] : k \in 0..n}

LogFile(ls) == [exists |-> TRUE, lines |-> ls]

\* a listed directory entry without extension-host/exthost.log
Missing == [exists |-> FALSE, lines |-> <<>>]

NoOutput == [banner |-> FALSE, printed |-> FALSE, chart |-> FALSE, data |-> <<>>]

file == logs[cur].lines

----------------------------------------------------------------------------
(* get_log_activity_interval                                               *)

Init ==
    /\ logs \in {<<LogFile(ls)>> : ls \in SeqsUpTo(LineSet, MaxLines)} \cup {<<Missing>>}
    /\ cur = 1
    /\ delta \in Widths
    /\ pc = "open"
    /\ pos = 1
    /\ eofReads = 0
    /\ hist = <<>>
    /\ out = <<NoOutput>>

\* with open(log_path) as log_file
Open ==
    /\ pc = "open"
    /\ pc' = IF logs[cur].exists THEN "pass1" ELSE "error"
    /\ UNCHANGED <<logs, cur, delta, pos, eofReads, hist, out>>

\* first pass, readline() gives a line without timestamp
Pass1Skip ==
    /\ pc = "pass1"
    /\ pos <= Len(file)
    /\ get_datetime_from_log_line(file[pos]).tag = "none"
    /\ pos' = pos + 1
    /\ UNCHANGED <<logs, cur, delta, pc, eofReads, hist, out>>

\* first pass, readline() at end of file gives "" and the loop goes on
Pass1Eof ==
    /\ pc = "pass1"
    /\ pos > Len(file)
    /\ get_datetime_from_log_line(<<>>).tag = "none"
    /\ eofReads < MaxEofReads
    /\ eofReads' = eofReads + 1
    /\ UNCHANGED <<logs, cur, delta, pc, pos, hist, out>>

\* first pass, the first timestamp: seed the buckets of its day
Pass1Seed ==
    /\ pc = "pass1"
    /\ pos <= Len(file)
    /\ get_datetime_from_log_line(file[pos]).tag = "ok"
    /\ hist' = Seed(Midnight(get_datetime_from_log_line(file[pos]).val), delta)
    /\ pc' = "pass2"
    /\ pos' = 1
    /\ UNCHANGED <<logs, cur, delta, eofReads, out>>

\* either pass, strptime raises and nothing catches it
ParseError ==
    /\ pc \in {"pass1", "pass2"}
    /\ pos <= Len(file)
    /\ get_datetime_from_log_line(file[pos]).tag = "error"
    /\ pc' = "error"
    /\ UNCHANGED <<logs, cur, delta, pos, eofReads, hist, out>>

\* counting pass, a line without timestamp
Pass2Skip ==
    /\ pc = "pass2"
    /\ pos <= Len(file)
    /\ get_datetime_from_log_line(file[pos]).tag = "none"
    /\ pos' = pos + 1
    /\ UNCHANGED <<logs, cur, delta, pc, eofReads, hist, out>>

\* counting pass, a line with a timestamp
Pass2Count ==
    /\ pc = "pass2"
    /\ pos <= Len(file)
    /\ get_datetime_from_log_line(file[pos]).tag = "ok"
    /\ hist' = Bump(hist, Round(get_datetime_from_log_line(file[pos]).val, delta))
    /\ pos' = pos + 1
    /\ UNCHANGED <<logs, cur, delta, pc, eofReads, out>>

\* return time_interval_to_log_count
Return ==
    /\ pc = "pass2"
    /\ pos > Len(file)
    /\ pc' = "returned"
    /\ UNCHANGED <<logs, cur, delta, pos, eofReads, hist, out>>

Next ==
    \/ Open
    \/ Pass1Skip
    \/ Pass1Eof
    \/ Pass1Seed
    \/ ParseError
    \/ Pass2Skip
    \/ Pass2Count
    \/ Return

Spec == Init /\ [][Next]_vars

----------------------------------------------------------------------------
(* main                                                                    *)

InitMain ==
    /\ logs \in SeqsUpTo({LogFile(ls) : ls \in SeqsUpTo(MainLineSet, MaxMainLines)}
                           \cup {Missing}, MaxFiles)
    /\ cur = 0
    /\ delta = DefaultInterval
    /\ pc = "main"
    /\ pos = 1
    /\ eofReads = 0
    /\ hist = <<>>
    /\ out = [i \in 1..Len(logs) |-> NoOutput]

\* for log_path in log_paths: print the banner, call the aggregator
MainNextFile ==
    /\ pc = "main"
    /\ cur < Len(logs)
    /\ cur' = cur + 1
    /\ out' = [out EXCEPT ![cur + 1].banner = TRUE]
    /\ pc' = "open"
    /\ pos' = 1
    /\ eofReads' = 0
    /\ hist' = <<>>
    /\ UNCHANGED <<logs, delta>>

\* print every bucket, draw_line_plot_from_time_dict(..., save_file=folder)
MainPrintDraw ==
    /\ pc = "returned"
    /\ out' = [out EXCEPT ![cur] = [banner |-> TRUE, printed |-> TRUE,
                                    chart |-> TRUE, data |-> hist]]
    /\ pc' = "main"
    /\ UNCHANGED <<logs, cur, delta, pos, eofReads, hist>>

\* the loop is over
MainDone ==
    /\ pc = "main"
    /\ cur = Len(logs)
    /\ pc' = "done"
    /\ UNCHANGED <<logs, cur, delta, pos, eofReads, hist, out>>

\* main has no handler: the exception leaves the loop and ends the run
MainRaise ==
    /\ pc = "error"
    /\ pc' = "aborted"
    /\ UNCHANGED <<logs, cur, delta, pos, eofReads, hist, out>>

NextMain ==
    \/ MainNextFile
    \/ Open
    \/ Pass1Skip
    \/ Pass1Eof
    \/ Pass1Seed
    \/ ParseError
    \/ Pass2Skip
    \/ Pass2Count
    \/ Return
    \/ MainPrintDraw
    \/ MainDone
    \/ MainRaise

SpecMain == InitMain /\ [][NextMain]_vars

----------------------------------------------------------------------------
(* Vocabulary of the properties                                            *)

StartsWithBracket(line) == line # <<>> /\ line[1].kind = "lb"

\* a run of "[", then one timestamp with fields in range, closed by "]" or
\* by the end of the line
WellFormed(line) ==
    \E j \in 2..Len(line) :
        /\ \A i \in 1..(j - 1) : line[i] = LB
        /\ line[j].kind = "stamp"
        /\ line[j].ms < Day
        /\ (j = Len(line) \/ line[j + 1] = RB)

Malformed(line) == StartsWithBracket(line) /\ ~WellFormed(line)

Yields(line) == get_datetime_from_log_line(line)

Stamped(line) == Yields(line).tag = "ok"

StampedCount(f, n) == Cardinality({i \in 1..n : Stamped(f[i])})

RECURSIVE SumCounts(_)
SumCounts(h) == IF h = <<>> THEN 0 ELSE Head(h).count + SumCounts(Tail(h))

\* t - ((t - epoch) mod w)
Floor(t, w) == Epoch + ((t - Epoch) \div w) * w

DateOf(t) == (t - Epoch) \div Day

FirstStamped(f) ==
    CHOOSE i \in 1..Len(f) : Stamped(f[i]) /\ \A j \in 1..(i - 1) : ~Stamped(f[j])

Anchor(f) == Epoch + DateOf(Yields(f[FirstStamped(f)]).val) * Day

Keys(h) == [i \in 1..Len(h) |-> h[i].key]

Range(s) == {s[i] : i \in 1..Len(s)}

\* the pre-seeded keys, then the rounded keys of the first n lines that are
\* not yet listed, in file order
RECURSIVE ExpectedOrder(_, _, _)
ExpectedOrder(f, n, d) ==
    IF n = 0
    THEN [k \in 1..(Day \div d) |-> Anchor(f) + (k - 1) * d]
    ELSE LET prev == ExpectedOrder(f, n - 1, d)
         IN  IF Stamped(f[n]) /\ Round(Yields(f[n]).val, d) \notin Range(prev)
             THEN Append(prev, Round(Yields(f[n]).val, d))
             ELSE prev

Counting == pc = "pass2" /\ pos <= Len(file)

\* a log file main can process to the end
Processable(l) ==
    /\ l.exists
    /\ \E i \in 1..Len(l.lines) : Stamped(l.lines[i])
    /\ \A i \in 1..Len(l.lines) : ~Malformed(l.lines[i])

----------------------------------------------------------------------------
(* Properties                                                              *)

\* C1 (as stated): in the counting pass a line with timestamp t increments
\* the bucket b = t - ((t - epoch) mod w), with b <= t < b + w.
C1_RoundsDown ==
    [][(Counting /\ Stamped(file[pos])) =>
        LET t == Yields(file[pos]).val
            b == Floor(t, delta)
        IN  /\ b <= t
            /\ t < b + delta
            /\ Count(hist', b) = Count(hist, b) + 1]_vars

\* C2 (as stated): once the first pass has exhausted the input without
\* finding a timestamp, its next step signals an error.
C2_ExhaustedInputIsError ==
    [][(pc = "pass1" /\ pos > Len(file)) => pc' = "error"]_vars

\* C3: while counting and at return, the sum of all bucket counts equals the
\* number of lines processed so far that yielded a timestamp.
C3_SumEqualsStamped ==
    pc \in {"pass2", "returned"} =>
        SumCounts(hist) = StampedCount(file, pos - 1)

C3_Witness ==
    /\ pc = "returned"
    /\ StampedCount(file, Len(file)) >= 2
    /\ \E i \in 1..Len(file) : ~Stamped(file[i])
    /\ \E i \in 1..Len(hist) : hist[i].count >= 2

\* C4: right after the first pass the histogram is exactly the keys
\* anchor + k*w for 0 <= k < floor(day / w), in increasing order, all with
\* count 0, anchor being midnight of the first timestamped line's date.
C4_Preseeded ==
    (pc = "pass2" /\ pos = 1) =>
        /\ Len(hist) = Day \div delta
        /\ \A k \in 1..Len(hist) :
              /\ hist[k].key = Anchor(file) + (k - 1) * delta
              /\ hist[k].count = 0
        /\ \A k \in 1..(Len(hist) - 1) : hist[k + 1].key = hist[k].key + delta
        /\ (Day % delta = 0 => Len(hist) * delta = Day)

C4_Witness ==
    /\ pc = "pass2"
    /\ pos = 1
    /\ delta = DefaultInterval
    /\ FirstStamped(file) > 1
    /\ Anchor(file) = Epoch + Day
    /\ Len(hist) = 48
    /\ hist[1].key = Anchor(file)
    /\ hist[48].key = Anchor(file) + 84600000

\* C5 (as stated): for w dividing one day, a counting step creates a bucket
\* only for a timestamp whose date differs from the anchor's date.
C5_NewBucketOnlyOtherDay ==
    [][(Counting /\ Stamped(file[pos]) /\ Day % delta = 0
          /\ DateOf(Yields(file[pos]).val) = DateOf(Anchor(file)))
        => Keys(hist') = Keys(hist)]_vars

C7_PlainLineIgnored ==
    [][(pc \in {"pass1", "pass2"} /\ pos <= Len(file)
          /\ ~StartsWithBracket(file[pos]))
        => /\ Yields(file[pos]) = None
           /\ hist' = hist
           /\ pc' = pc
           /\ pos' = pos + 1]_vars

C7_Witness ==
    /\ pc = "pass2"
    /\ pos > 1
    /\ ~StartsWithBracket(file[pos - 1])
    /\ Len(file[pos - 1]) > 1
    /\ Len(hist) > 0

\* C8: a timestamp that is already a multiple of w from the epoch
\* increments the bucket keyed by that very timestamp, and no other.
C8_BoundaryKeepsKey ==
    [][(Counting /\ Stamped(file[pos])
          /\ (Yields(file[pos]).val - Epoch) % delta = 0)
        => LET t == Yields(file[pos]).val
           IN  /\ Count(hist', t) = Count(hist, t) + 1
               /\ SumCounts(hist') = SumCounts(hist) + 1]_vars

C8_Witness ==
    /\ pc \in {"pass2", "returned"}
    /\ pos > 1
    /\ Stamped(file[pos - 1])
    /\ (Yields(file[pos - 1]).val - Epoch) % delta = 0
    /\ Count(hist, Yields(file[pos - 1]).val) >= 1

\* C9: the keys are listed in first-creation order: the pre-seeded buckets
\* in increasing order, then the other buckets in the order the file first
\* reached them; an increment never moves a key.
C9_FirstCreationOrder ==
    pc \in {"pass2", "returned"} =>
        /\ Keys(hist) = ExpectedOrder(file, pos - 1, delta)
        /\ \A k \in 1..((Day \div delta) - 1) : hist[k].key < hist[k + 1].key

C9_Witness ==
    /\ pc = "returned"
    /\ Day \div delta > 0
    /\ Len(hist) >= (Day \div delta) + 2
    /\ hist[Len(hist)].key < hist[Len(hist) - 1].key
    /\ \E i \in 1..(Day \div delta) : hist[i].count >= 1

\* C10 (as stated): when the run of main has ended, every discovered log
\* file that can itself be processed has its banner, its bucket lines and
\* its chart, whatever happened to the other files.
C10_FailuresAreLocal ==
    pc \in {"done", "aborted"} =>
        \A i \in 1..Len(logs) :
            Processable(logs[i]) =>
                out[i].banner /\ out[i].printed /\ out[i].chart

====
